---- MODULE Spec2Model ----
(***************************************************************************)
(* AnalysisAgent (src/agents/analysis_agent.py): the summarize ->          *)
(* fact-check -> classify pipeline, the per-article classification with    *)
(* its fallback record, and the statistics over a finished batch.          *)
(*                                                                         *)
(* A Python dict is a function whose DOMAIN is its key set; d.get(k, v) is *)
(* Get(d, k, v).  Strings are atoms, except a fact-check claim, which the  *)
(* prompt slices and is therefore a sequence of characters.  A credibility *)
(* score is kept in tenths (0.3 is 3) and a mean in thousandths.           *)
(***************************************************************************)
EXTENDS Integers, Sequences, FiniteSets, TLC

VARIABLES
    pc,                     \* position in analyze_articles / _classify_and_analyze
    model,                  \* self.model is set (GOOGLE_API_KEY was found)
    summarized_articles,    \* what summarize_articles returned
    fact_check_returned,    \* what fact_check_articles returned
    fact_checked_articles,  \* the argument of _classify_and_analyze
    i,                      \* articles the classification loop is done with
    analyzed_articles,      \* the list _classify_and_analyze appends to
    calls,                  \* the completion service's log: one entry per generate_content
    status,                 \* per article, the st.warning / st.success / st.error it caused
    final_analyzed_articles,\* what _classify_and_analyze returned
    files,                  \* the contents written to temp/final_analysis_<epoch>.json
    returned,               \* what analyze_articles returned
    invoked,                \* the collaborators this run has invoked
    stats_articles,         \* the argument of get_analysis_summary
    stats                   \* what get_analysis_summary returned

vars == <<pc, model, summarized_articles, fact_check_returned, fact_checked_articles,
          i, analyzed_articles, calls, status, final_analyzed_articles, files,
          returned, invoked, stats_articles, stats>>

(***************************************************************************)
(* Bounds.                                                                 *)
(***************************************************************************)
\* the longest batch the summarizer returns in a pipeline run
MaxArticles == 3
\* the longest batch handed to _classify_and_analyze on its own
MaxDirect == 1
\* the longest batch handed to get_analysis_summary
MaxStats == 3

(***************************************************************************)
(* Program constants.                                                      *)
(***************************************************************************)
\* result['claim'][:100]
ClaimChars == 100
\* article['fact_check_results'][:3]
DigestResults == 3

categories ==
    << "Health", "Environmental", "Social economics", "Conspiracy theory",
       "Corporate control", "Ethical/religious issues", "Seed ownership",
       "Scientific authority", "Other" >>

FailureNote == "Classification failed due to processing error"

(***************************************************************************)
(* Dictionaries and sequences.                                             *)
(***************************************************************************)
Get(d, k, default) == IF k \in DOMAIN d THEN d[k] ELSE default

Range(s) == { s[n] : n \in 1..Len(s) }

Min(a, b) == IF a <= b THEN a ELSE b

\* s[:n]
Prefix(s, n) == SubSeq(s, 1, Min(Len(s), n))

\* the sequences over S of length at most n
RECURSIVE SeqsUpTo(_, _)
SeqsUpTo(S, n) ==
    IF n = 0 THEN { <<>> }
    ELSE LET shorter == SeqsUpTo(S, n - 1)
         IN  shorter \cup { Append(s, x) : s \in shorter, x \in S }

RECURSIVE SumSeq(_)
SumSeq(s) == IF s = <<>> THEN 0 ELSE s[1] + SumSeq(Tail(s))

(***************************************************************************)
(* The prompt.                                                             *)
(***************************************************************************)
ResultKeys == { "claim", "status", "rating", "publisher" }

\* one entry of the digest of fact-check results
DigestEntry(result) ==
    [ claim     |-> Prefix(result.claim, ClaimChars),
      status    |-> result.status,
      rating    |-> result.rating,
      publisher |-> result.publisher ]

\* _create_classification_prompt: the prompt, or the KeyError of a record
\* without 'url' or of one of the first three results without one of its keys
create_classification_prompt(article) ==
    LET shown == IF Get(article, "fact_check_results", <<>>) # <<>>
                 THEN Prefix(article.fact_check_results, DigestResults)
                 ELSE <<>>
    IN  IF \/ \E n \in 1..Len(shown) : ~ (ResultKeys \subseteq DOMAIN shown[n])
           \/ "url" \notin DOMAIN article
        THEN [ raised |-> TRUE, prompt |-> <<>> ]
        ELSE [ raised |-> FALSE,
               prompt |-> [ url             |-> article.url,
                            title           |-> Get(article, "title", "Untitled"),
                            summary         |-> Get(article, "summary", ""),
                            overall_status  |-> Get(article, "overall_status", "Unsure"),
                            fact_check_info |-> [ n \in 1..Len(shown) |-> DigestEntry(shown[n]) ],
                            categories      |-> categories ] ]

(***************************************************************************)
(* The reply of the completion service and its parse.                      *)
(***************************************************************************)
\* json.loads on the reply text.  A text is invalid JSON, or a JSON array, a
\* JSON scalar (null, a number, a string) or a JSON object with its members.
\* The outcome is a JSONDecodeError, or the value, which is a mapping (has
\* .get) only when the text is an object
json_loads(text) ==
    IF text.json = "invalid" THEN [ error |-> TRUE, mapping |-> FALSE, value |-> <<>> ]
    ELSE IF text.json = "object" THEN [ error |-> FALSE, mapping |-> TRUE, value |-> text.members ]
    ELSE [ error |-> FALSE, mapping |-> FALSE, value |-> <<>> ]

\* the fallback with the defaults of a parsed reply
create_fallback_result_defaults(article) ==
    [ url                 |-> article.url,
      title               |-> Get(article, "title", "Untitled"),
      content             |-> Get(article, "content", ""),
      summary             |-> Get(article, "summary", ""),
      claims              |-> Get(article, "claims", <<>>),
      fact_check_results  |-> Get(article, "fact_check_results", <<>>),
      overall_fact_status |-> Get(article, "overall_status", "Unsure"),
      classification      |-> "Other",
      confidence          |-> "medium",
      key_themes          |-> <<>>,
      analysis_notes      |-> "",
      sentiment           |-> "neutral",
      credibility_score   |-> 5 ]

\* the fallback without the article's content
create_fallback_result_no_content(article) ==
    [ url                 |-> article.url,
      title               |-> Get(article, "title", "Untitled"),
      summary             |-> Get(article, "summary", ""),
      claims              |-> Get(article, "claims", <<>>),
      fact_check_results  |-> Get(article, "fact_check_results", <<>>),
      overall_fact_status |-> Get(article, "overall_status", "Unsure"),
      classification      |-> "Other",
      confidence          |-> "low",
      key_themes          |-> <<>>,
      analysis_notes      |-> FailureNote,
      sentiment           |-> "neutral",
      credibility_score   |-> 3 ]

\* _create_fallback_result
create_fallback_result(article) ==
    [ url                 |-> article.url,
      title               |-> Get(article, "title", "Untitled"),
      content             |-> Get(article, "content", ""),
      summary             |-> Get(article, "summary", ""),
      claims              |-> Get(article, "claims", <<>>),
      fact_check_results  |-> Get(article, "fact_check_results", <<>>),
      overall_fact_status |-> Get(article, "overall_status", "Unsure"),
      classification      |-> "Other",
      confidence          |-> "low",
      key_themes          |-> <<>>,
      analysis_notes      |-> FailureNote,
      sentiment           |-> "neutral",
      credibility_score   |-> 3 ]

\* a reply that omits a field is given up whole
AnalysisResultAllOrNothing(article, analysis) ==
    LET complete ==
            { "classification", "confidence", "key_themes", "analysis_notes",
              "sentiment", "credibility_score" } \subseteq DOMAIN analysis
    IN  [ url                 |-> article.url,
          title               |-> Get(article, "title", "Untitled"),
          content             |-> Get(article, "content", ""),
          summary             |-> Get(article, "summary", ""),
          claims              |-> Get(article, "claims", <<>>),
          fact_check_results  |-> Get(article, "fact_check_results", <<>>),
          overall_fact_status |-> Get(article, "overall_status", "Unsure"),
          classification      |-> IF complete THEN analysis.classification ELSE "Other",
          confidence          |-> IF complete THEN analysis.confidence ELSE "low",
          key_themes          |-> IF complete THEN analysis.key_themes ELSE <<>>,
          analysis_notes      |-> IF complete THEN analysis.analysis_notes ELSE FailureNote,
          sentiment           |-> IF complete THEN analysis.sentiment ELSE "neutral",
          credibility_score   |-> IF complete THEN analysis.credibility_score ELSE 3 ]

\* the dict _classify_single_article builds from the parsed mapping
AnalysisResult(article, analysis) ==
    [ url                 |-> article.url,
      title               |-> Get(article, "title", "Untitled"),
      content             |-> Get(article, "content", ""),
      summary             |-> Get(article, "summary", ""),
      claims              |-> Get(article, "claims", <<>>),
      fact_check_results  |-> Get(article, "fact_check_results", <<>>),
      overall_fact_status |-> Get(article, "overall_status", "Unsure"),
      classification      |-> Get(analysis, "classification", "Other"),
      confidence          |-> Get(analysis, "confidence", "medium"),
      key_themes          |-> Get(analysis, "key_themes", <<>>),
      analysis_notes      |-> Get(analysis, "analysis_notes", ""),
      sentiment           |-> Get(analysis, "sentiment", "neutral"),
      credibility_score   |-> Get(analysis, "credibility_score", 5) ]

\* _classify_single_article on an article and the completion service's answer
\* to its prompt: whether it raised, whether generate_content was called,
\* whether the parse warning was reported, and the record it returned
classify_single_article(article, reply) ==
    LET p == create_classification_prompt(article)
    IN  IF p.raised
        THEN [ raised |-> TRUE, called |-> FALSE, warned |-> FALSE, result |-> <<>> ]
        ELSE IF reply.kind = "raise"
        THEN [ raised |-> TRUE, called |-> TRUE, warned |-> FALSE, result |-> <<>> ]
        ELSE LET parsed == json_loads(reply.text)
             IN  IF parsed.error
                 THEN [ raised |-> FALSE, called |-> TRUE, warned |-> TRUE,
                        result |-> create_fallback_result(article) ]
                 ELSE IF ~ parsed.mapping
                 THEN [ raised |-> TRUE, called |-> TRUE, warned |-> FALSE, result |-> <<>> ]
                 ELSE [ raised |-> FALSE, called |-> TRUE, warned |-> FALSE,
                        result |-> AnalysisResult(article, parsed.value) ]

\* a second call after a call exception or a reply that is no object
CompletionCallsRetry(article, reply) ==
    IF ~ classify_single_article(article, reply).called THEN 0
    ELSE IF reply.kind = "raise" \/ reply.text.json # "object" THEN 2
    ELSE 1

\* generate_content calls one article's classification makes
CompletionCalls(article, reply) ==
    IF classify_single_article(article, reply).called THEN 1 ELSE 0

\* a failed article is left out of the list
BatchItemDropFailed(article, reply) ==
    LET r == classify_single_article(article, reply)
    IN  IF r.raised THEN <<>> ELSE << r.result >>

\* the try/except of the loop body: what one article appends to the list
BatchItem(article, reply) ==
    LET r == classify_single_article(article, reply)
    IN  IF r.raised THEN << create_fallback_result(article) >> ELSE << r.result >>

\* the status messages one article causes
BatchStatus(article, reply) ==
    LET r == classify_single_article(article, reply)
    IN  IF r.raised THEN << "error" >>
        ELSE IF r.warned THEN << "warning", "success" >>
        ELSE << "success" >>

(***************************************************************************)
(* The records and replies the collaborators are taken to produce.         *)
(***************************************************************************)
\* a record of the scraper alone, one with the summarizer's fields, and a
\* malformed one without 'url'
Scraped == [ url |-> "u1" ]

Summarized == [ url |-> "u2", title |-> "T2", content |-> "c2", summary |-> "s2" ]

NoUrl == [ title |-> "T3", summary |-> "s3" ]

SummarizerRecords == { Scraped, Summarized, NoUrl }

GoodResult ==
    [ claim |-> << "g", "m", "o" >>, status |-> "Myth", rating |-> "False", publisher |-> "p" ]

\* a fact-check result without 'status', 'rating' and 'publisher'
BadResult == [ claim |-> << "g", "m", "o" >> ]

\* the fact-checker's fields on a record: well formed, with a malformed first
\* result, and with a malformed result behind the three the prompt shows
Checked(a) ==
    [ claims |-> << "c1" >>, fact_check_results |-> << GoodResult >>,
      overall_status |-> "Myth" ] @@ a

CheckedBad(a) ==
    [ claims |-> << "c1" >>, fact_check_results |-> << BadResult >>,
      overall_status |-> "Fact" ] @@ a

CheckedLong(a) ==
    [ claims |-> << "c1" >>,
      fact_check_results |-> << GoodResult, GoodResult, GoodResult, BadResult >>,
      overall_status |-> "Fact" ] @@ a

\* what fact_check_articles may return for a batch: nothing, or the batch with
\* each record carrying fact-check fields
RECURSIVE CheckedBatches(_)
CheckedBatches(batch) ==
    IF batch = <<>> THEN { <<>> }
    ELSE { << first >> \o rest :
             first \in { Checked(batch[1]), CheckedBad(batch[1]) },
             rest \in CheckedBatches(Tail(batch)) }

FactCheckOutcomes(batch) == { <<>> } \cup CheckedBatches(batch)

AnalysisFields ==
    { "classification", "confidence", "key_themes", "analysis_notes", "sentiment",
      "credibility_score" }

FullAnalysis ==
    [ classification    |-> "Health",
      confidence        |-> "high",
      key_themes        |-> << "gmo" >>,
      analysis_notes    |-> "sound",
      sentiment         |-> "positive",
      credibility_score |-> 9 ]

\* a reply whose values are those of the fallback record
FallbackLike ==
    [ classification    |-> "Other",
      confidence        |-> "low",
      key_themes        |-> <<>>,
      analysis_notes    |-> FailureNote,
      sentiment         |-> "neutral",
      credibility_score |-> 3 ]

Restrict(f, S) == [ k \in S |-> f[k] ]

RaiseReply == [ kind |-> "raise" ]

GarbageReply == [ kind |-> "text", text |-> [ json |-> "invalid" ] ]

ArrayReply == [ kind |-> "text", text |-> [ json |-> "array" ] ]

ScalarReply == [ kind |-> "text", text |-> [ json |-> "scalar" ] ]

ObjectReply(members) == [ kind |-> "text", text |-> [ json |-> "object", members |-> members ] ]

\* generate_content (or reading response.text) raises, or the text is no object
FailedReplies == { RaiseReply, GarbageReply, ArrayReply, ScalarReply }

\* the replies of a pipeline run
BatchReplies ==
    FailedReplies \cup
    { ObjectReply(FullAnalysis),
      ObjectReply(Restrict(FullAnalysis, AnalysisFields \ { "sentiment" })),
      ObjectReply(<<>>) }

\* the replies of a direct classification: every subset of the six fields
AllReplies ==
    FailedReplies \cup
    { ObjectReply(Restrict(FullAnalysis, S)) : S \in SUBSET AnalysisFields } \cup
    { ObjectReply(FallbackLike),
      ObjectReply(Restrict(FallbackLike, AnalysisFields \ { "classification" })) }

DirectRecords ==
    { Scraped, Summarized, NoUrl, Checked(Summarized), CheckedBad(Summarized),
      CheckedLong(Scraped) }

(***************************************************************************)
(* analyze_articles.                                                       *)
(***************************************************************************)
\* `if summarized_articles is None`: an empty list does not abort
SummarizationIsNone(batch) == FALSE

\* `if not summarized_articles`
SummarizationFailed(batch) == batch = <<>>

\* the fact-checker's return is used as it is
ClassifierInputUnchecked(batch, checked) == checked

\* `if not fact_checked_articles: fact_checked_articles = summarized_articles`
ClassifierInput(batch, checked) == IF checked = <<>> THEN batch ELSE checked

\* `if not final_analyzed_articles`
ShouldSaveInverted(batch) == batch = <<>>

\* `if final_analyzed_articles` before the dump
ShouldSave(batch) == batch # <<>>

Init ==
    /\ pc = "start"
    /\ model \in BOOLEAN
    /\ summarized_articles = <<>>
    /\ fact_check_returned = <<>>
    /\ fact_checked_articles = <<>>
    /\ i = 0
    /\ analyzed_articles = <<>>
    /\ calls = <<>>
    /\ status = <<>>
    /\ final_analyzed_articles = <<>>
    /\ files = <<>>
    /\ returned = <<>>
    /\ invoked = {}
    /\ stats_articles = <<>>
    /\ stats = <<>>

\* `if not self.model: return []`
AbortNoModel ==
    /\ pc = "start"
    /\ ~ model
    /\ pc' = "returned"
    /\ returned' = <<>>
    /\ UNCHANGED <<model, summarized_articles, fact_check_returned, fact_checked_articles,
                   i, analyzed_articles, calls, status, final_analyzed_articles, files,
                   invoked, stats_articles, stats>>

\* step 1: the summarizer returns some batch, possibly none
Summarize ==
    /\ pc = "start"
    /\ model
    /\ \E batch \in SeqsUpTo(SummarizerRecords, MaxArticles) :
           summarized_articles' = batch
    /\ invoked' = invoked \cup { "summarizer" }
    /\ pc' = "summarized"
    /\ UNCHANGED <<model, fact_check_returned, fact_checked_articles, i, analyzed_articles,
                   calls, status, final_analyzed_articles, files, returned,
                   stats_articles, stats>>

\* `if not summarized_articles: return []`
AbortSummarization ==
    /\ pc = "summarized"
    /\ SummarizationFailed(summarized_articles)
    /\ pc' = "returned"
    /\ returned' = <<>>
    /\ UNCHANGED <<model, summarized_articles, fact_check_returned, fact_checked_articles,
                   i, analyzed_articles, calls, status, final_analyzed_articles, files,
                   invoked, stats_articles, stats>>

\* step 2: the fact-checker's return, replaced by the summaries when empty
FactCheck ==
    /\ pc = "summarized"
    /\ ~ SummarizationFailed(summarized_articles)
    /\ \E checked \in FactCheckOutcomes(summarized_articles) :
           /\ fact_check_returned' = checked
           /\ fact_checked_articles' = ClassifierInput(summarized_articles, checked)
    /\ invoked' = invoked \cup { "fact_checker" }
    /\ pc' = "fact_checked"
    /\ UNCHANGED <<model, summarized_articles, i, analyzed_articles, calls, status,
                   final_analyzed_articles, files, returned, stats_articles, stats>>

\* step 3: the call of _classify_and_analyze, up to its loop
BeginClassify ==
    /\ pc = "fact_checked"
    /\ invoked' = invoked \cup { "classifier" }
    /\ i' = 0
    /\ analyzed_articles' = <<>>
    /\ pc' = "classifying"
    /\ UNCHANGED <<model, summarized_articles, fact_check_returned, fact_checked_articles,
                   calls, status, final_analyzed_articles, files, returned,
                   stats_articles, stats>>

\* one iteration of the loop of _classify_and_analyze under the replies R: the
\* status line reads article['url'] outside the try, so a record without it
\* ends the batch with a KeyError
ClassifyArticle(R) ==
    /\ pc = "classifying"
    /\ i < Len(fact_checked_articles)
    /\ LET article == fact_checked_articles[i + 1]
       IN  IF "url" \notin DOMAIN article
           THEN /\ pc' = "raised"
                /\ UNCHANGED <<i, analyzed_articles, calls, status>>
           ELSE \E reply \in R :
                    /\ analyzed_articles' = analyzed_articles \o BatchItem(article, reply)
                    /\ calls' = calls \o
                           [ n \in 1..CompletionCalls(article, reply) |->
                               [ index  |-> i + 1,
                                 prompt |-> create_classification_prompt(article).prompt,
                                 reply  |-> reply ] ]
                    /\ status' = Append(status, BatchStatus(article, reply))
                    /\ i' = i + 1
                    /\ pc' = pc
    /\ UNCHANGED <<model, summarized_articles, fact_check_returned, fact_checked_articles,
                   final_analyzed_articles, files, returned, invoked, stats_articles, stats>>

\* the loop is over: _classify_and_analyze returns its list
EndClassify ==
    /\ pc = "classifying"
    /\ i = Len(fact_checked_articles)
    /\ final_analyzed_articles' = analyzed_articles
    /\ pc' = "classified"
    /\ UNCHANGED <<model, summarized_articles, fact_check_returned, fact_checked_articles,
                   i, analyzed_articles, calls, status, files, returned, invoked,
                   stats_articles, stats>>

\* step 4: the dump of a non-empty final batch
SaveResults ==
    /\ pc = "classified"
    /\ files' = IF ShouldSave(final_analyzed_articles)
                THEN Append(files, final_analyzed_articles)
                ELSE files
    /\ pc' = "saved"
    /\ UNCHANGED <<model, summarized_articles, fact_check_returned, fact_checked_articles,
                   i, analyzed_articles, calls, status, final_analyzed_articles, returned,
                   invoked, stats_articles, stats>>

\* `return final_analyzed_articles`
Return ==
    /\ pc = "saved"
    /\ returned' = final_analyzed_articles
    /\ pc' = "returned"
    /\ UNCHANGED <<model, summarized_articles, fact_check_returned, fact_checked_articles,
                   i, analyzed_articles, calls, status, final_analyzed_articles, files,
                   invoked, stats_articles, stats>>

Next ==
    \/ AbortNoModel
    \/ Summarize
    \/ AbortSummarization
    \/ FactCheck
    \/ BeginClassify
    \/ ClassifyArticle(BatchReplies)
    \/ EndClassify
    \/ SaveResults
    \/ Return

Spec == Init /\ [][Next]_vars

(***************************************************************************)
(* _classify_and_analyze called on a batch of its own.                     *)
(***************************************************************************)
InitClassify ==
    /\ pc = "classifying"
    /\ model = TRUE
    /\ summarized_articles = <<>>
    /\ fact_check_returned = <<>>
    /\ fact_checked_articles \in SeqsUpTo(DirectRecords, MaxDirect)
    /\ i = 0
    /\ analyzed_articles = <<>>
    /\ calls = <<>>
    /\ status = <<>>
    /\ final_analyzed_articles = <<>>
    /\ files = <<>>
    /\ returned = <<>>
    /\ invoked = { "classifier" }
    /\ stats_articles = <<>>
    /\ stats = <<>>

NextClassify ==
    \/ ClassifyArticle(AllReplies)
    \/ EndClassify

SpecClassify == InitClassify /\ [][NextClassify]_vars

(***************************************************************************)
(* get_analysis_summary.                                                   *)
(***************************************************************************)
\* sum(1 for a in articles if a.get(key) == value)
CountWhere(articles, key, value) ==
    Cardinality({ n \in 1..Len(articles) :
                    key \in DOMAIN articles[n] /\ articles[n][key] = value })

\* every record that carries a classification counts for every category
ClassificationCountAny(articles, category) ==
    Cardinality({ n \in 1..Len(articles) : "classification" \in DOMAIN articles[n] })

\* the count of one category
ClassificationCount(articles, category) == CountWhere(articles, "classification", category)

\* the keys of classification_counts: one per entry of self.categories
CountedCategories == Range(categories)

\* a / b to the nearest integer, ties to even, as round() does
RoundDiv(a, b) ==
    LET q == a \div b
        r == a % b
    IN  IF 2 * r < b THEN q
        ELSE IF 2 * r > b THEN q + 1
        ELSE IF q % 2 = 0 THEN q ELSE q + 1

\* a.get('classification') != 'Other' or a.get('analysis_notes') != the failure note
Successful(a) ==
    \/ "classification" \notin DOMAIN a
    \/ a.classification # "Other"
    \/ "analysis_notes" \notin DOMAIN a
    \/ a.analysis_notes # FailureNote

\* get_analysis_summary: {} for no articles; scores are in tenths and the mean
\* in thousandths
get_analysis_summary(articles) ==
    IF articles = <<>> THEN <<>>
    ELSE
      [ total_articles |-> Len(articles),
        classification_counts |->
            [ c \in CountedCategories |-> ClassificationCount(articles, c) ],
        fact_status_counts |->
            [ v \in { "Fact", "Myth", "Unsure" } |->
                CountWhere(articles, "overall_fact_status", v) ],
        confidence_counts |->
            [ v \in { "high", "medium", "low" } |-> CountWhere(articles, "confidence", v) ],
        sentiment_counts |->
            [ v \in { "positive", "negative", "neutral", "mixed" } |->
                CountWhere(articles, "sentiment", v) ],
        average_credibility_score |->
            RoundDiv(100 * SumSeq([ n \in 1..Len(articles) |->
                                      Get(articles[n], "credibility_score", 5) ]),
                     Len(articles)),
        successful_analyses |->
            Cardinality({ n \in 1..Len(articles) : Successful(articles[n]) }) ]

\* the records handed to get_analysis_summary: one of each category, the
\* fallback record, an all-defaults record, one whose classification is outside
\* the taxonomy and one that was never classified
Classified(c) ==
    [ url |-> "u2", overall_fact_status |-> "Fact", classification |-> c,
      confidence |-> "high", analysis_notes |-> "sound", sentiment |-> "positive",
      credibility_score |-> 9 ]

StatsRecords ==
    { Classified(c) : c \in Range(categories) } \cup
    { create_fallback_result(Scraped), AnalysisResult(Scraped, <<>>),
      Classified("Astrology"), Scraped }

InitStats ==
    /\ pc = "stats"
    /\ model = TRUE
    /\ summarized_articles = <<>>
    /\ fact_check_returned = <<>>
    /\ fact_checked_articles = <<>>
    /\ i = 0
    /\ analyzed_articles = <<>>
    /\ calls = <<>>
    /\ status = <<>>
    /\ final_analyzed_articles = <<>>
    /\ files = <<>>
    /\ returned = <<>>
    /\ invoked = {}
    /\ stats_articles \in SeqsUpTo(StatsRecords, MaxStats)
    /\ stats = <<>>

GetAnalysisSummary ==
    /\ pc = "stats"
    /\ stats' = get_analysis_summary(stats_articles)
    /\ pc' = "stats_done"
    /\ UNCHANGED <<model, summarized_articles, fact_check_returned, fact_checked_articles,
                   i, analyzed_articles, calls, status, final_analyzed_articles, files,
                   returned, invoked, stats_articles>>

NextStats == GetAnalysisSummary

SpecStats == InitStats /\ [][NextStats]_vars

(***************************************************************************)
(* Properties.                                                             *)
(***************************************************************************)
\* the classification loop has handed its list back
BatchReturned == pc \in { "classified", "saved", "returned" } /\ "classifier" \in invoked

\* the articles the loop has emitted a record for
Emitted == 1..Len(analyzed_articles)

\* the completion calls made for article n
CallsFor(n) == { k \in 1..Len(calls) : calls[k].index = n }

IsObjectReply(reply) == reply.kind = "text" /\ reply.text.json = "object"

\* C1: the classification batch returns one record per input article, in
\* input order and with the input's url, whichever calls raise or return
\* unparseable text; a batch of records that all carry a url never raises.
C1_OrderPreserved ==
    /\ pc = "classifying" =>
           /\ Len(analyzed_articles) = i
           /\ \A n \in 1..i : analyzed_articles[n].url = fact_checked_articles[n].url
    /\ BatchReturned =>
           /\ Len(final_analyzed_articles) = Len(fact_checked_articles)
           /\ \A n \in 1..Len(fact_checked_articles) :
                  final_analyzed_articles[n].url = fact_checked_articles[n].url
    /\ (\A n \in 1..Len(fact_checked_articles) : "url" \in DOMAIN fact_checked_articles[n])
           => pc # "raised"

C1_Witness ==
    /\ pc = "classified"
    /\ Len(final_analyzed_articles) = 3
    /\ final_analyzed_articles[1].url = "u1"
    /\ final_analyzed_articles[2].url = "u2"
    /\ final_analyzed_articles[3].url = "u1"
    /\ status[1] = << "error" >>
    /\ status[2] = << "warning", "success" >>
    /\ status[3] = << "success" >>

\* C2: when the summarizer returns an empty sequence the run returns an
\* empty sequence and invokes neither the fact-checker nor the classifier nor
\* the completion service.
C2_AbortOnEmptySummaries ==
    ("summarizer" \in invoked /\ summarized_articles = <<>>) =>
        /\ invoked = { "summarizer" }
        /\ calls = <<>>
        /\ pc \in { "summarized", "returned" }
        /\ pc = "returned" => returned = <<>>

C2_Witness ==
    /\ pc = "returned"
    /\ "summarizer" \in invoked
    /\ summarized_articles = <<>>
    /\ returned = <<>>

\* C3: when the fact-checker returns an empty sequence for non-empty
\* summaries S, the run goes on: the classifier's argument is exactly S, and
\* a run that returns has invoked the classifier and returns its list for S.
C3_SoftFail ==
    ("fact_checker" \in invoked /\ fact_check_returned = <<>>) =>
        /\ summarized_articles # <<>>
        /\ fact_checked_articles = summarized_articles
        /\ pc \in { "fact_checked", "classifying", "classified", "saved", "returned", "raised" }
        /\ pc # "fact_checked" => "classifier" \in invoked
        /\ pc = "returned" =>
               /\ returned = final_analyzed_articles
               /\ Len(returned) = Len(summarized_articles)
               /\ \A n \in 1..Len(returned) :
                      \E reply \in BatchReplies :
                          << returned[n] >> = BatchItem(summarized_articles[n], reply)

C3_Witness ==
    /\ pc = "returned"
    /\ "fact_checker" \in invoked
    /\ fact_check_returned = <<>>
    /\ Len(summarized_articles) = 2
    /\ Len(returned) = 2
    /\ returned[2].classification = "Health"

\* C4: no exception escapes the classification batch: every article's
\* failure is caught and the rest of the batch is still attempted.
C4_NeverRaises == pc # "raised"

\* C5: an article whose completion call raised, or whose reply is no JSON
\* object, gets exactly the fixed fallback fields, whatever the other articles
\* of the batch got.
C5_FallbackFields ==
    \A n \in Emitted :
        (\E k \in CallsFor(n) : ~ IsObjectReply(calls[k].reply)) =>
            /\ analyzed_articles[n].classification = "Other"
            /\ analyzed_articles[n].confidence = "low"
            /\ analyzed_articles[n].key_themes = <<>>
            /\ analyzed_articles[n].analysis_notes =
                   "Classification failed due to processing error"
            /\ analyzed_articles[n].sentiment = "neutral"
            /\ analyzed_articles[n].credibility_score = 3

C5_Witness ==
    /\ Len(analyzed_articles) = 2
    /\ \E k \in CallsFor(1) : calls[k].reply = ObjectReply(FullAnalysis)
    /\ \E k \in CallsFor(2) : calls[k].reply = ArrayReply
    /\ analyzed_articles[1].confidence = "high"
    /\ analyzed_articles[2].confidence = "low"

\* the default of each analysis field
C6_Default ==
    [ classification    |-> "Other",
      confidence        |-> "medium",
      key_themes        |-> <<>>,
      analysis_notes    |-> "",
      sentiment         |-> "neutral",
      credibility_score |-> 5 ]

\* C6: when the reply parses to a JSON object, each of the six analysis
\* fields is the reply's value when the reply has it and its own default when
\* not, and the article is reported classified without warning or error.
C6_FieldDefaults ==
    \A n \in Emitted :
        \A k \in CallsFor(n) :
            IsObjectReply(calls[k].reply) =>
                /\ \A f \in AnalysisFields :
                       analyzed_articles[n][f] =
                           IF f \in DOMAIN calls[k].reply.text.members
                           THEN calls[k].reply.text.members[f]
                           ELSE C6_Default[f]
                /\ status[n] = << "success" >>

C6_Witness ==
    /\ Len(analyzed_articles) = 1
    /\ \E k \in CallsFor(1) :
           /\ IsObjectReply(calls[k].reply)
           /\ DOMAIN calls[k].reply.text.members = AnalysisFields \ { "sentiment" }
    /\ analyzed_articles[1].sentiment = "neutral"
    /\ analyzed_articles[1].classification = "Health"
    /\ analyzed_articles[1].credibility_score = 9

\* the run was aborted for a missing credential or empty summaries
Aborted == ~ model \/ ("summarizer" \in invoked /\ summarized_articles = <<>>)

\* C7: a run writes the final batch at most once, after the whole batch is
\* classified and before it returns; a returned run has written exactly when
\* what it returns is non-empty, and wrote what it returns; an aborted run
\* writes nothing.
C7_SavedOnce ==
    /\ Len(files) <= 1
    /\ files # <<>> =>
           /\ pc \in { "saved", "returned" }
           /\ i = Len(fact_checked_articles)
           /\ Len(status) = Len(fact_checked_articles)
           /\ files[1] = final_analyzed_articles
    /\ pc = "returned" =>
           /\ Len(files) = 1 <=> returned # <<>>
           /\ files # <<>> => files[1] = returned
    /\ Aborted => files = <<>>

C7_Witness ==
    /\ pc = "returned"
    /\ Len(returned) = 2
    /\ files = << returned >>

\* the thirteen fields of an article record
RecordFields ==
    { "url", "title", "content", "summary", "claims", "fact_check_results",
      "overall_fact_status", "classification", "confidence", "key_themes",
      "analysis_notes", "sentiment", "credibility_score" }

\* C8 as stated: every key of the input record is a key of the record
\* emitted for it.
C8_KeysNeverRemoved ==
    \A n \in Emitted :
        DOMAIN fact_checked_articles[n] \subseteq DOMAIN analyzed_articles[n]

\* C8 as amended: the record emitted for an article, on the success and on
\* the fallback path, has exactly the thirteen record fields, so every input
\* key that is a record field is kept and the pass-through values are the
\* input's; an input key outside them (overall_status, read into
\* overall_fact_status) is not carried over.
C8_RecordFieldsKept ==
    \A n \in Emitted :
        /\ DOMAIN analyzed_articles[n] = RecordFields
        /\ (DOMAIN fact_checked_articles[n] \cap RecordFields)
               \subseteq DOMAIN analyzed_articles[n]
        /\ \A f \in { "url", "title", "content", "summary", "claims", "fact_check_results" } :
               f \in DOMAIN fact_checked_articles[n] =>
                   analyzed_articles[n][f] = fact_checked_articles[n][f]
        /\ "overall_status" \in DOMAIN fact_checked_articles[n] =>
               analyzed_articles[n].overall_fact_status =
                   fact_checked_articles[n].overall_status

C8_Witness ==
    /\ Len(analyzed_articles) = 2
    /\ status[1] = << "error" >>
    /\ status[2] = << "success" >>
    /\ "overall_status" \in DOMAIN fact_checked_articles[1]
    /\ "overall_status" \in DOMAIN fact_checked_articles[2]
    /\ "content" \in DOMAIN fact_checked_articles[1]
    /\ "content" \in DOMAIN analyzed_articles[1]
    /\ "overall_status" \notin DOMAIN analyzed_articles[2]

\* the records of a batch that carry classification c
RECURSIVE C9_Carrying(_, _)
C9_Carrying(batch, c) ==
    IF batch = <<>> THEN 0
    ELSE (IF "classification" \in DOMAIN batch[1] /\ batch[1].classification = c
          THEN 1 ELSE 0) + C9_Carrying(Tail(batch), c)

\* C9: for a non-empty batch, classification_counts has exactly the nine
\* categories as keys, each counting the records that carry it (0 when none
\* does), and total_articles is the batch length.
C9_ClassificationCounts ==
    (pc = "stats_done" /\ stats_articles # <<>>) =>
        /\ DOMAIN stats.classification_counts =
               { "Health", "Environmental", "Social economics", "Conspiracy theory",
                 "Corporate control", "Ethical/religious issues", "Seed ownership",
                 "Scientific authority", "Other" }
        /\ \A c \in DOMAIN stats.classification_counts :
               stats.classification_counts[c] = C9_Carrying(stats_articles, c)
        /\ stats.total_articles = Len(stats_articles)

C9_Witness ==
    /\ pc = "stats_done"
    /\ Len(stats_articles) = 3
    /\ stats.classification_counts["Health"] = 2
    /\ stats.classification_counts["Other"] = 1
    /\ \A c \in DOMAIN stats.classification_counts :
           c \notin { "Health", "Other" } => stats.classification_counts[c] = 0

\* C10: the completion service is called at most once per article, in input
\* order, with that article's prompt; no article is submitted again after a
\* call exception or a parse failure, so a batch of N makes at most N calls.
C10_SingleCall ==
    /\ Len(calls) <= Len(fact_checked_articles)
    /\ \A k \in 1..Len(calls) :
           /\ calls[k].index \in 1..i
           /\ calls[k].prompt.url = fact_checked_articles[calls[k].index].url
    /\ \A k \in 1..(Len(calls) - 1) : calls[k].index < calls[k + 1].index

C10_Witness ==
    /\ pc = "classified"
    /\ Len(fact_checked_articles) = 2
    /\ Len(calls) = 2
    /\ calls[1].index = 1
    /\ calls[1].reply = GarbageReply
    /\ calls[2].index = 2
    /\ calls[2].reply = RaiseReply

====
